---- MODULE Spec2Model ----
(***************************************************************************)
(* Janseva Tracker: complaint intake (POST /api/complaints), the rule-     *)
(* based priority scorer and the duplicate detector of ai.service.         *)
(*                                                                         *)
(* JavaScript strings are sequences of one-character strings, so that      *)
(* toLowerCase, includes and the $regex match are computed, not assumed.   *)
(* Numbers are integers; the category multiplier is kept in tenths         *)
(* (1.5 is 15) and the weighted sum in tenths, so that the product is in   *)
(* hundredths and Math.round is exact.                                     *)
(***************************************************************************)
EXTENDS Integers, Sequences, FiniteSets, TLC

VARIABLES
  complaints,    \* the Complaint collection, in insertion order
  transformers,  \* whether safeRequire("xenova/transformers") yields a module
  nextId,        \* the next _id the store assigns
  req,           \* per request: the position and locals of router.post("/")
  call,          \* the arguments of a direct call of an exported function
  ret            \* what that call returned

vars == <<complaints, transformers, nextId, req, call, ret>>

(***************************************************************************)
(* Bounds of the model.                                                    *)
(***************************************************************************)
MaxComplaints == 2   \* stored complaints in the request specification
MaxSameLocation == 10\* stored complaints in the scorer specification
MaxHours == 26       \* largest hoursPending option drawn
MaxWindow == 2       \* stored complaints drawn freely for detectDuplicate
MaxDim == 2          \* longest vector drawn for cosineSimilarity
MaxListed == 2       \* stored complaints drawn for GET /priority
MaxCounted == 5      \* most complaints at one location when those were scored
MaxServed == 4       \* requests answered after startup

(***************************************************************************)
(* JavaScript values that are not ordinary numbers or strings.             *)
(***************************************************************************)
NaN == -1                \* the result of arithmetic on a non-number
Unset == -2              \* a numeric option that was not supplied (undefined)
InheritedFunction == -3  \* a function found on Object.prototype by a lookup
Undefined == <<"undefined">>  \* an absent string field (undefined)
Null == 0                \* no _id
Throws == <<"throws">>   \* a call that raised instead of returning a string

Min(a, b) == IF a <= b THEN a ELSE b

\* Math.min(a, b): NaN if either argument is NaN
MathMin(a, b) == IF a = NaN \/ b = NaN THEN NaN ELSE Min(a, b)

\* Math.round(n / d) for n >= 0: floor(n/d + 1/2); NaN stays NaN
MathRound(n, d) == IF n = NaN THEN NaN ELSE (2 * n + d) \div (2 * d)

\* x || d for a numeric x: undefined, 0 and NaN are falsy
OrDefault(x, d) == IF x = Unset \/ x = 0 \/ x = NaN THEN d ELSE x

\* a >= b in JavaScript: false when a is NaN
GE(a, b) == a # NaN /\ a >= b

\* a < b in JavaScript: false when a is NaN
LT(a, b) == a # NaN /\ a < b

(***************************************************************************)
(* Strings.                                                                *)
(***************************************************************************)
UpperCase == <<"A","B","C","D","E","F","G","H","I","J","K","L","M","N","O","P","Q","R","S","T","U","V","W","X","Y","Z">>
LowerCase == <<"a","b","c","d","e","f","g","h","i","j","k","l","m","n","o","p","q","r","s","t","u","v","w","x","y","z">>

LowerChar(c) ==
  IF \E i \in 1..Len(UpperCase) : UpperCase[i] = c
  THEN LowerCase[CHOOSE i \in 1..Len(UpperCase) : UpperCase[i] = c]
  ELSE c

\* String.prototype.toLowerCase
toLowerCase(s) == [i \in 1..Len(s) |-> LowerChar(s[i])]

\* String.prototype.includes
includes(s, sub) ==
  \E k \in 0..(Len(s) - Len(sub)) :
    \A i \in 1..Len(sub) : s[k + i] = sub[i]

\* a truthy string: neither undefined nor ""
Truthy(s) == s # Undefined /\ s # <<>>

\* a || b for strings
OrStr(a, b) == IF Truthy(a) THEN a ELSE b

(***************************************************************************)
(* Priority scoring (ai.service calculatePriority).                        *)
(***************************************************************************)

\* the own keys of the categoryMultipliers literal, in tenths
categoryMultipliers ==
  [k \in { <<"D","r","a","i","n","a","g","e">>, <<"G","a","r","b","a","g","e">>, <<"W","a","t","e","r"," ","L","e","a","k","a","g","e">>, <<"R","o","a","d"," ","D","a","m","a","g","e">>,
           <<"S","t","r","e","e","t","l","i","g","h","t"," ","I","s","s","u","e">> } |->
     CASE k = <<"D","r","a","i","n","a","g","e">> -> 15
       [] k = <<"G","a","r","b","a","g","e">> -> 13
       [] k = <<"W","a","t","e","r"," ","L","e","a","k","a","g","e">> -> 12
       [] k = <<"R","o","a","d"," ","D","a","m","a","g","e">> -> 11
       [] k = <<"S","t","r","e","e","t","l","i","g","h","t"," ","I","s","s","u","e">> -> 10]

\* property names every object literal inherits from Object.prototype
ObjectPrototypeKeys == { <<"c","o","n","s","t","r","u","c","t","o","r">>, <<"t","o","S","t","r","i","n","g">>, <<"v","a","l","u","e","O","f">> }

\* categoryMultipliers[complaint.category] || 1.0
CategoryMultiplierOf(category) ==
  IF category \in DOMAIN categoryMultipliers THEN categoryMultipliers[category]
  ELSE IF category \in ObjectPrototypeKeys THEN InheritedFunction
  ELSE 10

\* a * b where b is a multiplier in tenths: NaN when b is not a number
Times(a, b) == IF a = NaN \/ b = InheritedFunction THEN NaN ELSE a * b

\* SeverityOf with the critical breakpoint exclusive
SeverityOfExclusive(finalScore) ==
  IF GE(finalScore, 81) THEN "critical"
  ELSE IF GE(finalScore, 60) THEN "high"
  ELSE IF GE(finalScore, 40) THEN "medium"
  ELSE "low"

\* the severity tier of a score
SeverityOf(finalScore) ==
  IF GE(finalScore, 80) THEN "critical"
  ELSE IF GE(finalScore, 60) THEN "high"
  ELSE IF GE(finalScore, 40) THEN "medium"
  ELSE "low"

\* FallbackSeverityOf answering the neutral tier whatever the score
FallbackSeverityNeutral(score) == "medium"

\* the tier the catch branch derives from the fallback score
FallbackSeverityOf(score) ==
  IF score >= 80 THEN "critical"
  ELSE IF score >= 60 THEN "high"
  ELSE IF score >= 40 THEN "medium"
  ELSE "low"

\* { location: { $regex: location, $options: "i" } } against one stored location
RegexMatches(stored, location) ==
  stored # Undefined /\ includes(toLowerCase(stored), toLowerCase(location))

\* countDocuments matching the location by equality instead of by $regex
countDocumentsExact(store, location, id) ==
  Cardinality({ i \in DOMAIN store :
                  store[i].location = location /\ store[i].id # id })

\* Complaint.countDocuments({ location: {$regex, $options: "i"}, _id: {$ne: id} })
countDocuments(store, location, id) ==
  Cardinality({ i \in DOMAIN store :
                  RegexMatches(store[i].location, location) /\ store[i].id # id })

breakdownCountScore(sameLocationCount) == Min(sameLocationCount * 10 + 50, 100)

breakdownTimeScore(options) == Min(OrDefault(options.hoursPending, 0) * 2 + 50, 100)

breakdownAreaScore(options) == OrDefault(options.areaWeight, 50)

\* rawScore in tenths
RawScore(breakdown) ==
  4 * breakdown.complaintCountScore + 3 * breakdown.timePendingScore
    + 3 * breakdown.areaWeightScore

\* FinalScore clamping the raw score before it multiplies and rounds
FinalScoreClampFirst(breakdown) ==
  MathRound(Times(MathMin(RawScore(breakdown), 1000),
                  breakdown.categoryMultiplier), 100)

\* Math.min(Math.round(rawScore * categoryMultiplier), 100)
FinalScore(breakdown) ==
  MathMin(MathRound(Times(RawScore(breakdown), breakdown.categoryMultiplier), 100), 100)

\* fallbackCalculatePriority without its category-based adjustment
fallbackCalculatePriorityNeutral(complaint) ==
  [score |-> 50,
   breakdown |-> [complaintCountScore |-> 50, timePendingScore |-> 50,
                  areaWeightScore |-> 50, categoryMultiplier |-> 10]]

fallbackCalculatePriority(complaint) ==
  LET category == IF Truthy(complaint.category)
                  THEN toLowerCase(complaint.category) ELSE <<>>
      adjust ==
        IF includes(category, <<"d","r","a","i","n","a","g","e">>) \/ includes(category, <<"s","e","w","a","g","e">>)
          THEN [score |-> 85, m |-> 15]
        ELSE IF includes(category, <<"g","a","r","b","a","g","e">>) THEN [score |-> 70, m |-> 12]
        ELSE IF includes(category, <<"w","a","t","e","r">>) THEN [score |-> 65, m |-> 11]
        ELSE IF includes(category, <<"r","o","a","d">>) \/ includes(category, <<"p","o","t","h","o","l","e">>)
          THEN [score |-> 60, m |-> 10]
        ELSE IF includes(category, <<"l","i","g","h","t">>) THEN [score |-> 55, m |-> 9]
        ELSE [score |-> 50, m |-> 10]
  IN [score |-> adjust.score,
      breakdown |-> [complaintCountScore |-> 50, timePendingScore |-> 50,
                     areaWeightScore |-> 50, categoryMultiplier |-> adjust.m]]

\* the try block of calculatePriority, the count query having succeeded
ScoreNormally(complaint, options, store) ==
  LET sameLocationCount == countDocuments(store, complaint.location, complaint.id)
      breakdown == [complaintCountScore |-> breakdownCountScore(sameLocationCount),
                    timePendingScore |-> breakdownTimeScore(options),
                    areaWeightScore |-> breakdownAreaScore(options),
                    categoryMultiplier |-> CategoryMultiplierOf(complaint.category)]
      finalScore == FinalScore(breakdown)
  IN [score |-> finalScore,
      breakdown |-> breakdown,
      severityLevel |-> SeverityOf(finalScore),
      reasoning |-> [text |-> "Score", score |-> finalScore,
                     count |-> sameLocationCount,
                     category |-> complaint.category,
                     multiplier |-> breakdown.categoryMultiplier],
      raised |-> FALSE]

\* the catch block of calculatePriority
ScoreByFallback(complaint) ==
  LET fallback == fallbackCalculatePriority(complaint)
  IN [score |-> fallback.score,
      breakdown |-> fallback.breakdown,
      severityLevel |-> FallbackSeverityOf(fallback.score),
      reasoning |-> [text |-> "Default assessment (AI disabled)", score |-> 0,
                     count |-> 0, category |-> <<>>, multiplier |-> 0],
      raised |-> FALSE]

\* the count query raises when the database is unreachable, and when the
\* location is not a usable $regex pattern
QueryRaises(complaint, dbFails) == dbFails \/ complaint.location = Undefined

\* calculatePriority without its try/catch: a failing query raises
calculatePriorityNoCatch(complaint, options, store, dbFails) ==
  IF QueryRaises(complaint, dbFails)
  THEN [ScoreByFallback(complaint) EXCEPT !.raised = TRUE]
  ELSE ScoreNormally(complaint, options, store)

calculatePriority(complaint, options, store, dbFails) ==
  IF QueryRaises(complaint, dbFails)
  THEN ScoreByFallback(complaint)
  ELSE ScoreNormally(complaint, options, store)

(***************************************************************************)
(* Text classification (ai.service classifyText).                          *)
(***************************************************************************)

\* Object.entries(keywords) of fallbackTextClassification, in source order
keywords ==
  << [category |-> <<"G","a","r","b","a","g","e">>,
      words |-> { <<"g","a","r","b","a","g","e">>, <<"t","r","a","s","h">>, <<"w","a","s","t","e">>, <<"l","i","t","t","e","r">>, <<"d","i","r","t","y">>, <<"s","m","e","l","l">> }],
     [category |-> <<"R","o","a","d"," ","D","a","m","a","g","e">>,
      words |-> { <<"p","o","t","h","o","l","e">>, <<"r","o","a","d">>, <<"c","r","a","c","k">>, <<"b","r","o","k","e","n">>, <<"d","a","m","a","g","e">>, <<"h","o","l","e">> }],
     [category |-> <<"S","t","r","e","e","t","l","i","g","h","t"," ","I","s","s","u","e">>,
      words |-> { <<"l","i","g","h","t">>, <<"s","t","r","e","e","t","l","i","g","h","t">>, <<"d","a","r","k">>, <<"l","a","m","p">>, <<"n","o"," ","l","i","g","h","t">> }],
     [category |-> <<"W","a","t","e","r"," ","L","e","a","k","a","g","e">>,
      words |-> { <<"w","a","t","e","r">>, <<"l","e","a","k">>, <<"p","i","p","e">>, <<"t","a","p">>, <<"o","v","e","r","f","l","o","w">> }],
     [category |-> <<"D","r","a","i","n","a","g","e">>,
      words |-> { <<"d","r","a","i","n">>, <<"s","e","w","e","r">>, <<"c","l","o","g">>, <<"f","l","o","o","d">>, <<"w","a","t","e","r"," ","l","o","g","g","i","n","g">> }] >>

\* scores[category] in units of 0.2: the keywords of the entry the text includes
KeywordScore(lowerText, entry) ==
  Cardinality({ w \in entry.words : includes(lowerText, w) })

RECURSIVE KeywordScan(_, _, _, _)
\* the loop over Object.entries(keywords): a later category wins only if
\* its score is strictly greater
KeywordScan(lowerText, i, maxScore, maxCategory) ==
  IF i > Len(keywords) THEN [maxScore |-> maxScore, maxCategory |-> maxCategory]
  ELSE LET s == KeywordScore(lowerText, keywords[i])
       IN IF s > maxScore
          THEN KeywordScan(lowerText, i + 1, s, keywords[i].category)
          ELSE KeywordScan(lowerText, i + 1, maxScore, maxCategory)

\* fallbackTextClassification(text).predictedCategory, text a string
fallbackTextClassification(text) ==
  LET scan == KeywordScan(toLowerCase(text), 1, 0, <<"O","t","h","e","r">>)
  IN IF scan.maxScore > 0 THEN scan.maxCategory ELSE <<"O","t","h","e","r">>

\* the candidate labels handed to the zero-shot classifier
candidateLabels ==
  { <<"G","a","r","b","a","g","e">>, <<"R","o","a","d"," ","D","a","m","a","g","e">>, <<"S","t","r","e","e","t","l","i","g","h","t"," ","I","s","s","u","e">>, <<"W","a","t","e","r"," ","L","e","a","k","a","g","e">>, <<"D","r","a","i","n","a","g","e">> }

\* classifyText(text): the predicted categories it can return, or Throws.
\* undefined text makes toLowerCase raise in the fallback, also when the
\* fallback is reached from the catch block. With the transformers module
\* the model's top label is any candidate label, and a failing pipeline
\* falls back to the keywords.
classifyText(text, haveTransformers) ==
  IF text = Undefined THEN { Throws }
  ELSE IF haveTransformers
       THEN candidateLabels \cup { fallbackTextClassification(text) }
       ELSE { fallbackTextClassification(text) }

(***************************************************************************)
(* Duplicate detection (ai.service detectDuplicate, cosineSimilarity).     *)
(* A similarity is kept exactly as num / sqrt(den2); 0/sqrt(0) is the NaN  *)
(* that 0/0 gives.                                                         *)
(***************************************************************************)
NoVector == << Unset >>    \* an absent (null) embedding

Zero == [num |-> 0, den2 |-> 1]

RECURSIVE Dot(_, _, _)
Dot(a, b, i) == IF i > Len(a) THEN 0 ELSE a[i] * b[i] + Dot(a, b, i + 1)

\* the quotient with the norm of the first vector only: dot / normA
cosineSimilarityByFirstNorm(vecA, vecB) ==
  IF vecA = NoVector \/ vecB = NoVector \/ Len(vecA) # Len(vecB) THEN Zero
  ELSE [num |-> Dot(vecA, vecB, 1),
        den2 |-> Dot(vecA, vecA, 1) * Dot(vecA, vecA, 1)]

\* the quotient without the square roots: dot / (normA * normB)
cosineSimilarityNoRoot(vecA, vecB) ==
  IF vecA = NoVector \/ vecB = NoVector \/ Len(vecA) # Len(vecB) THEN Zero
  ELSE [num |-> Dot(vecA, vecB, 1),
        den2 |-> Dot(vecA, vecA, 1) * Dot(vecB, vecB, 1)
                   * Dot(vecA, vecA, 1) * Dot(vecB, vecB, 1)]

cosineSimilarity(vecA, vecB) ==
  IF vecA = NoVector \/ vecB = NoVector \/ Len(vecA) # Len(vecB) THEN Zero
  ELSE [num |-> Dot(vecA, vecB, 1),
        den2 |-> Dot(vecA, vecA, 1) * Dot(vecB, vecB, 1)]

IsNaN(s) == s.den2 = 0

SignedSquare(s) == (IF s.num < 0 THEN -1 ELSE 1) * s.num * s.num

\* a > b for similarities: false when either is NaN
SimGT(a, b) ==
  /\ ~IsNaN(a) /\ ~IsNaN(b)
  /\ SignedSquare(a) * b.den2 > SignedSquare(b) * a.den2

\* 0.85 = 17 / sqrt(400)
DUPLICATE_THRESHOLD == [num |-> 17, den2 |-> 400]

\* Math.floor(similarity * 100)
RoundPercentFloor(s) ==
  IF IsNaN(s) THEN NaN
  ELSE IF s.num <= 0 THEN 0
  ELSE CHOOSE k \in 0..100 :
         /\ k * k * s.den2 <= 10000 * s.num * s.num
         /\ k = 100 \/ (k + 1) * (k + 1) * s.den2 > 10000 * s.num * s.num

\* Math.round(similarity * 100)
RoundPercent(s) ==
  IF IsNaN(s) THEN NaN
  ELSE IF s.num <= 0 THEN 0
  ELSE CHOOSE k \in 0..100 :
         /\ k = 0 \/ (2 * k - 1) * (2 * k - 1) * s.den2 <= 40000 * s.num * s.num
         /\ k = 100 \/ (2 * k + 1) * (2 * k + 1) * s.den2 > 40000 * s.num * s.num

fallbackDetectDuplicate ==
  [isDuplicate |-> FALSE, similarity |-> Zero, matchingComplaint |-> Null,
   matchedField |-> "null"]

\* the feature-extraction pipeline on the texts of this model: a text and
\* its rewording are close, unrelated texts are far apart
Embed(description) ==
  CASE description = <<"d","r","a","i","n"," ","c","l","o","g">> -> <<2, 1>>
    [] description = <<"D","r","a","i","n"," ","c","l","o","g","g","e","d">> -> <<1, 1>>
    [] description = <<"n","o"," ","l","i","g","h","t">> -> <<0, 1>>
    [] description = <<"p","o","t","h","o","l","e">> -> <<1, 0, 0, 0, 0>>
    [] OTHER -> <<1, 0>>

\* 7 * 24 * 60 * 60 * 1000 milliseconds; the clock of the model counts days
SevenDays == 7

\* .limit(50)
WindowLimit == 50

\* find has no sort, so the order of its documents is the engine's: the
\* order of insertion, or its reverse
NaturalOrders == { "insertion", "reverse" }

InOrder(store, order) ==
  IF order = "insertion" THEN store
  ELSE [i \in 1..Len(store) |-> store[Len(store) + 1 - i]]

\* the find with no date filter
recentComplaintsAnyAge(store, now, order) ==
  SubSeq(InOrder(store, order), 1, Min(Len(store), WindowLimit))

\* Complaint.find({ createdAt: { $gte: now - seven days } }).limit(50)
recentComplaints(store, now, order) ==
  LET CreatedSince(complaint) == complaint.createdAt >= now - SevenDays
      found == SelectSeq(InOrder(store, order), CreatedSince)
  IN SubSeq(found, 1, Min(Len(found), WindowLimit))

RECURSIVE BestMatchLastWins(_, _, _, _)
\* the loop with similarity >= bestMatch.similarity
BestMatchLastWins(window, newEmbedding, i, bestMatch) ==
  IF i > Len(window) THEN bestMatch
  ELSE IF window[i].embedding = NoVector \/ Len(window[i].embedding) = 0
       THEN BestMatchLastWins(window, newEmbedding, i + 1, bestMatch)
  ELSE LET similarity == cosineSimilarity(newEmbedding, window[i].embedding)
       IN IF ~IsNaN(similarity) /\ ~SimGT(bestMatch.similarity, similarity)
          THEN BestMatchLastWins(window, newEmbedding, i + 1,
                                 [similarity |-> similarity, complaint |-> window[i].id])
          ELSE BestMatchLastWins(window, newEmbedding, i + 1, bestMatch)

RECURSIVE BestMatchStaleComplaint(_, _, _, _)
\* the loop with a better match replacing the similarity only
BestMatchStaleComplaint(window, newEmbedding, i, bestMatch) ==
  IF i > Len(window) THEN bestMatch
  ELSE IF window[i].embedding = NoVector \/ Len(window[i].embedding) = 0
       THEN BestMatchStaleComplaint(window, newEmbedding, i + 1, bestMatch)
  ELSE LET similarity == cosineSimilarity(newEmbedding, window[i].embedding)
       IN IF SimGT(similarity, bestMatch.similarity)
          THEN BestMatchStaleComplaint(window, newEmbedding, i + 1,
                 [similarity |-> similarity,
                  complaint |-> IF bestMatch.complaint = Null THEN window[i].id
                                ELSE bestMatch.complaint])
          ELSE BestMatchStaleComplaint(window, newEmbedding, i + 1, bestMatch)

RECURSIVE BestMatch(_, _, _, _)
\* the for loop of detectDuplicate over recentComplaints
BestMatch(window, newEmbedding, i, bestMatch) ==
  IF i > Len(window) THEN bestMatch
  ELSE IF window[i].embedding = NoVector \/ Len(window[i].embedding) = 0
       THEN BestMatch(window, newEmbedding, i + 1, bestMatch)
  ELSE LET similarity == cosineSimilarity(newEmbedding, window[i].embedding)
       IN IF SimGT(similarity, bestMatch.similarity)
          THEN BestMatch(window, newEmbedding, i + 1,
                         [similarity |-> similarity, complaint |-> window[i].id])
          ELSE BestMatch(window, newEmbedding, i + 1, bestMatch)

\* detectDuplicate with bestMatch.similarity >= DUPLICATE_THRESHOLD
detectDuplicateInclusive(newComplaint, store, now, order, haveTransformers, dbFails) ==
  IF ~haveTransformers \/ newComplaint.description = Undefined \/ dbFails
  THEN fallbackDetectDuplicate
  ELSE LET window == recentComplaints(store, now, order)
           bestMatch == BestMatch(window, Embed(newComplaint.description), 1,
                                  [similarity |-> Zero, complaint |-> Null])
       IN IF Len(window) = 0
          THEN [isDuplicate |-> FALSE, similarity |-> Zero,
                matchingComplaint |-> Null, matchedField |-> "null"]
          ELSE [isDuplicate |-> ~SimGT(DUPLICATE_THRESHOLD, bestMatch.similarity),
                similarity |-> bestMatch.similarity,
                matchingComplaint |-> bestMatch.complaint,
                matchedField |-> "text"]

\* detectDuplicate without its try/catch: a failing find raises
detectDuplicateNoCatch(newComplaint, store, now, order, haveTransformers, dbFails) ==
  IF ~haveTransformers THEN fallbackDetectDuplicate
  ELSE IF newComplaint.description = Undefined \/ dbFails
  THEN [isDuplicate |-> FALSE, similarity |-> Zero, matchingComplaint |-> Null,
        matchedField |-> "null", raised |-> TRUE]
  ELSE LET window == recentComplaints(store, now, order)
           bestMatch == BestMatch(window, Embed(newComplaint.description), 1,
                                  [similarity |-> Zero, complaint |-> Null])
       IN IF Len(window) = 0
          THEN [isDuplicate |-> FALSE, similarity |-> Zero,
                matchingComplaint |-> Null, matchedField |-> "null"]
          ELSE [isDuplicate |-> SimGT(bestMatch.similarity, DUPLICATE_THRESHOLD),
                similarity |-> bestMatch.similarity,
                matchingComplaint |-> bestMatch.complaint,
                matchedField |-> "text"]

\* detectDuplicate(newComplaint): without the module, with an undefined
\* description (the extractor raises) or with a failing find, the fallback
detectDuplicate(newComplaint, store, now, order, haveTransformers, dbFails) ==
  IF ~haveTransformers \/ newComplaint.description = Undefined \/ dbFails
  THEN fallbackDetectDuplicate
  ELSE LET window == recentComplaints(store, now, order)
           bestMatch == BestMatch(window, Embed(newComplaint.description), 1,
                                  [similarity |-> Zero, complaint |-> Null])
       IN IF Len(window) = 0
          THEN [isDuplicate |-> FALSE, similarity |-> Zero,
                matchingComplaint |-> Null, matchedField |-> "null"]
          ELSE [isDuplicate |-> SimGT(bestMatch.similarity, DUPLICATE_THRESHOLD),
                similarity |-> bestMatch.similarity,
                matchingComplaint |-> bestMatch.complaint,
                matchedField |-> "text"]

\* generateEmbedding(complaint): null without the module or when it raises
generateEmbedding(description, haveTransformers) ==
  IF ~haveTransformers \/ description = Undefined THEN NoVector
  ELSE Embed(description)

(***************************************************************************)
(* The Complaint model (models/complaint).                                 *)
(***************************************************************************)

\* the enum of complaintSchema.category
CategoryEnum ==
  { <<"G","a","r","b","a","g","e">>, <<"R","o","a","d"," ","D","a","m","a","g","e">>, <<"S","t","r","e","e","t","l","i","g","h","t"," ","I","s","s","u","e">>, <<"W","a","t","e","r"," ","L","e","a","k","a","g","e">>,
    <<"D","r","a","i","n","a","g","e">>, <<"O","t","h","e","r">> }

\* the enum of complaintSchema.aiSeverityLevel
SeverityEnum == { "low", "medium", "high", "critical" }

\* the validators of a schema whose category is any string
ValidatesAnyCategory(doc) ==
  /\ Truthy(doc.category)
  /\ Truthy(doc.description)
  /\ Truthy(doc.location)
  /\ doc.priorityScore # NaN /\ doc.priorityScore >= 0 /\ doc.priorityScore <= 100
  /\ doc.aiSeverityLevel \in SeverityEnum

\* the validators Complaint.create runs before it inserts
Validates(doc) ==
  /\ doc.category \in CategoryEnum
  /\ Truthy(doc.description)
  /\ Truthy(doc.location)
  /\ doc.priorityScore # NaN /\ doc.priorityScore >= 0 /\ doc.priorityScore <= 100
  /\ doc.aiSeverityLevel \in SeverityEnum

(***************************************************************************)
(* POST /api/complaints (complaint.routes router.post("/")).               *)
(***************************************************************************)
\* the handlers in flight at once
Requests == { 1 }

\* Date.now() of every request: the requests arrive within one day
Today == SevenDays + 1

\* the options of a call that passes none
NoOptions == [hoursPending |-> Unset, areaWeight |-> Unset]

Idle ==
  [pc |-> "idle", category |-> Undefined, description |-> Undefined,
   location |-> Undefined, predictedCategory |-> Undefined,
   duplicateCheck |-> fallbackDetectDuplicate,
   priorityResult |-> ScoreByFallback([category |-> Undefined]),
   status |-> 0, created |-> Null,
   resSimilarity |-> 0, resMatchingComplaint |-> Null, resPriority |-> Unset]

\* the request bodies drawn: a complete one without a category, a rewording
\* of it at a location the first one's location contains, an unknown
\* category, a category that names an inherited property, and bodies with
\* the description or the location missing
Body(category, description, location) ==
  [category |-> category, description |-> description, location |-> location]

Bodies ==
  { Body(Undefined, <<"d","r","a","i","n"," ","c","l","o","g">>, <<"M","G"," ","R","o","a","d">>),
    Body(<<"D","r","a","i","n","a","g","e">>, <<"D","r","a","i","n"," ","c","l","o","g","g","e","d">>, <<"m","g">>),
    Body(<<"P","o","t","h","o","l","e">>, <<"n","o"," ","l","i","g","h","t">>, <<"m","g">>),
    Body(<<"c","o","n","s","t","r","u","c","t","o","r">>, <<"n","o"," ","l","i","g","h","t">>, <<"m","g">>),
    Body(<<"G","a","r","b","a","g","e">>, Undefined, <<"m","g">>),
    Body(<<"G","a","r","b","a","g","e">>, <<"n","o"," ","l","i","g","h","t">>, Undefined) }

\* the response is sent and the handler's locals are gone
Responded(status, created) ==
  [Idle EXCEPT !.pc = "done", !.status = status, !.created = created]

\* the 409 response: similarity, matchingComplaint and aiInsights.priority
RespondedDuplicate(similarity, matchingComplaint, priority) ==
  [Responded(409, Null) EXCEPT !.resSimilarity = similarity,
                               !.resMatchingComplaint = matchingComplaint,
                               !.resPriority = priority]

\* steps 1 to 3: the body is read, the text classified (a raise in
\* classifyText is answered 500 by the handler's catch) and
\* detectDuplicate({ description, location }) reads the recent complaints
PostDetectOf(r, bodies, findFails) ==
  /\ req[r].pc = "idle"
  /\ \E body \in bodies :
       LET textClassification == classifyText(body.description, transformers)
       IN \E dbFails \in findFails, order \in NaturalOrders :
            LET duplicateCheck ==
                  detectDuplicate([description |-> body.description,
                                   location |-> body.location],
                                  complaints, Today, order, transformers, dbFails)
            IN \E predicted \in textClassification :
                 req' = [req EXCEPT ![r] =
                           IF predicted = Throws
                           THEN Responded(500, Null)
                           ELSE [Idle EXCEPT !.pc = "score",
                                   !.category = body.category,
                                   !.description = body.description,
                                   !.location = body.location,
                                   !.predictedCategory = predicted,
                                   !.duplicateCheck = duplicateCheck]]
  /\ UNCHANGED <<complaints, transformers, nextId, call, ret>>

\* steps 1 to 3 for any of the bodies, the find of step 3 failing or not
PostDetect(r) == PostDetectOf(r, Bodies, BOOLEAN)

\* step 4 left out, and 409 answered at once, when step 3 reported a
\* duplicate
PostScoreUnlessDuplicate(r) ==
  /\ req[r].pc = "score"
  /\ \E dbFails \in BOOLEAN :
       LET result ==
             calculatePriority(
               [category |-> OrStr(req[r].category, req[r].predictedCategory),
                location |-> req[r].location, id |-> Null],
               NoOptions, complaints, dbFails)
       IN req' = [req EXCEPT ![r] =
                    IF req[r].duplicateCheck.isDuplicate
                    THEN RespondedDuplicate(
                           RoundPercent(req[r].duplicateCheck.similarity),
                           req[r].duplicateCheck.matchingComplaint, Unset)
                    ELSE IF result.raised
                    THEN Responded(500, Null)
                    ELSE [@ EXCEPT !.pc = "respond", !.priorityResult = result]]
  /\ UNCHANGED <<complaints, transformers, nextId, call, ret>>

\* step 4: calculatePriority({ category: category || predicted, ... })
PostScore(r) ==
  /\ req[r].pc = "score"
  /\ \E dbFails \in BOOLEAN :
       LET result ==
             calculatePriority(
               [category |-> OrStr(req[r].category, req[r].predictedCategory),
                location |-> req[r].location, id |-> Null],
               NoOptions, complaints, dbFails)
       IN req' = [req EXCEPT ![r] =
                    IF result.raised
                    THEN Responded(500, Null)
                    ELSE [@ EXCEPT !.pc = "respond", !.priorityResult = result]]
  /\ UNCHANGED <<complaints, transformers, nextId, call, ret>>

\* the document handed to Complaint.create in step 7
NewComplaint(r, id) ==
  [id |-> id,
   category |-> OrStr(req[r].category, OrStr(req[r].predictedCategory, <<"O","t","h","e","r">>)),
   description |-> req[r].description,
   location |-> req[r].location,
   embedding |-> generateEmbedding(req[r].description, transformers),
   createdAt |-> Today,
   aiDuplicateCheck |->
     [isDuplicate |-> req[r].duplicateCheck.isDuplicate,
      similarity |-> RoundPercent(req[r].duplicateCheck.similarity),
      matchingComplaintId |-> req[r].duplicateCheck.matchingComplaint,
      matchedField |-> req[r].duplicateCheck.matchedField],
   priorityScore |-> req[r].priorityResult.score,
   priorityBreakdown |-> req[r].priorityResult.breakdown,
   aiSeverityLevel |-> req[r].priorityResult.severityLevel,
   aiReasoning |-> req[r].priorityResult.reasoning]

\* the step 6 test with a threshold of 0.95 = 19 / sqrt(400)
IsRejectedAboveHigherThreshold(duplicateCheck) ==
  duplicateCheck.isDuplicate
    /\ SimGT(duplicateCheck.similarity, [num |-> 19, den2 |-> 400])

\* step 6: if (duplicateCheck.isDuplicate && duplicateCheck.similarity > 0.85)
IsRejectedAsDuplicate(duplicateCheck) ==
  duplicateCheck.isDuplicate /\ SimGT(duplicateCheck.similarity, DUPLICATE_THRESHOLD)

\* steps 5 to 7 with the stored complaints rescored on every creation
PostRespondRescoring(r) ==
  /\ req[r].pc = "respond"
  /\ \E dbFails \in BOOLEAN :
       IF IsRejectedAsDuplicate(req[r].duplicateCheck)
       THEN /\ req' = [req EXCEPT ![r] =
                        RespondedDuplicate(
                          RoundPercent(req[r].duplicateCheck.similarity),
                          req[r].duplicateCheck.matchingComplaint,
                          req[r].priorityResult.score)]
            /\ UNCHANGED <<complaints, nextId>>
       ELSE IF dbFails \/ ~Validates(NewComplaint(r, nextId))
       THEN /\ req' = [req EXCEPT ![r] = Responded(500, Null)]
            /\ UNCHANGED <<complaints, nextId>>
       ELSE /\ Len(complaints) < MaxComplaints
            /\ complaints' =
                 Append([i \in DOMAIN complaints |->
                           [complaints[i] EXCEPT
                              !.priorityScore = req[r].priorityResult.score,
                              !.priorityBreakdown = req[r].priorityResult.breakdown,
                              !.aiSeverityLevel = req[r].priorityResult.severityLevel]],
                        NewComplaint(r, nextId))
            /\ nextId' = nextId + 1
            /\ req' = [req EXCEPT ![r] = Responded(201, nextId)]
  /\ UNCHANGED <<transformers, call, ret>>

\* steps 5 to 7 with a second detectDuplicate, on the store as it is now,
\* before Complaint.create
PostRespondRechecking(r) ==
  /\ req[r].pc = "respond"
  /\ \E dbFails \in BOOLEAN, order \in NaturalOrders :
       LET recheck == detectDuplicate([description |-> req[r].description,
                                       location |-> req[r].location],
                                      complaints, Today, order, transformers, FALSE)
       IN IF IsRejectedAsDuplicate(req[r].duplicateCheck) \/ IsRejectedAsDuplicate(recheck)
          THEN /\ req' = [req EXCEPT ![r] =
                           RespondedDuplicate(
                             RoundPercent(recheck.similarity),
                             recheck.matchingComplaint,
                             req[r].priorityResult.score)]
               /\ UNCHANGED <<complaints, nextId>>
          ELSE IF dbFails \/ ~Validates(NewComplaint(r, nextId))
          THEN /\ req' = [req EXCEPT ![r] = Responded(500, Null)]
               /\ UNCHANGED <<complaints, nextId>>
          ELSE /\ Len(complaints) < MaxComplaints
               /\ complaints' = Append(complaints, NewComplaint(r, nextId))
               /\ nextId' = nextId + 1
               /\ req' = [req EXCEPT ![r] = Responded(201, nextId)]
  /\ UNCHANGED <<transformers, call, ret>>

\* steps 5 to 7: the embedding, the threshold check, then 409, or
\* Complaint.create and 201, or 500 when create raises
PostRespond(r) ==
  /\ req[r].pc = "respond"
  /\ \E dbFails \in BOOLEAN :
       IF IsRejectedAsDuplicate(req[r].duplicateCheck)
       THEN /\ req' = [req EXCEPT ![r] =
                        RespondedDuplicate(
                          RoundPercent(req[r].duplicateCheck.similarity),
                          req[r].duplicateCheck.matchingComplaint,
                          req[r].priorityResult.score)]
            /\ UNCHANGED <<complaints, nextId>>
       ELSE IF dbFails \/ ~Validates(NewComplaint(r, nextId))
       THEN /\ req' = [req EXCEPT ![r] = Responded(500, Null)]
            /\ UNCHANGED <<complaints, nextId>>
       ELSE /\ Len(complaints) < MaxComplaints
            /\ complaints' = Append(complaints, NewComplaint(r, nextId))
            /\ nextId' = nextId + 1
            /\ req' = [req EXCEPT ![r] = Responded(201, nextId)]
  /\ UNCHANGED <<transformers, call, ret>>

\* the response has gone out and the handler has returned: the next
\* request can arrive
PostDone(r) ==
  /\ req[r].pc = "done"
  /\ req' = [req EXCEPT ![r] = Idle]
  /\ UNCHANGED <<complaints, transformers, nextId, call, ret>>

NoCall ==
  [pc |-> "none",
   complaint |-> [category |-> Undefined, location |-> Undefined, id |-> Null],
   options |-> NoOptions, dbFails |-> FALSE]

NoReturn == ScoreByFallback([category |-> Undefined])

Init ==
  /\ complaints = <<>>
  /\ transformers \in BOOLEAN
  /\ nextId = 1
  /\ req = [r \in Requests |-> Idle]
  /\ call = NoCall
  /\ ret = NoReturn

Next ==
  \E r \in DOMAIN req :
    \/ PostDetect(r)
    \/ PostScore(r)
    \/ PostRespond(r)
    \/ PostDone(r)

Spec == Init /\ [][Next]_vars

(***************************************************************************)
(* Two POST /api/complaints requests, one per client, in flight at once:   *)
(* every await of the handler lets the other request run.  The embedding   *)
(* module is installed and the find of detectDuplicate succeeds.           *)
(***************************************************************************)

ConcurrentRequests == { 1, 2 }

\* the bodies the two clients send
ConcurrentBodies ==
  { Body(Undefined, <<"d","r","a","i","n"," ","c","l","o","g">>, <<"M","G"," ","R","o","a","d">>),
    Body(<<"D","r","a","i","n","a","g","e">>, <<"D","r","a","i","n"," ","c","l","o","g","g","e","d">>, <<"m","g">>),
    Body(<<"O","t","h","e","r">>, <<"n","o"," ","l","i","g","h","t">>, <<"m","g">>) }

InitConcurrent ==
  /\ complaints = <<>>
  /\ transformers = TRUE
  /\ nextId = 1
  /\ req = [r \in ConcurrentRequests |-> Idle]
  /\ call = NoCall
  /\ ret = NoReturn

\* steps 1 to 3 of one of the two requests
PostDetectConcurrent(r) == PostDetectOf(r, ConcurrentBodies, { FALSE })

NextConcurrent ==
  \E r \in DOMAIN req :
    \/ PostDetectConcurrent(r)
    \/ PostScore(r)
    \/ PostRespond(r)

SpecConcurrent == InitConcurrent /\ [][NextConcurrent]_vars

(***************************************************************************)
(* calculatePriority called directly (the exported function, and           *)
(* POST /api/complaints/priority/calculate, which passes no options).      *)
(***************************************************************************)

\* a stored complaint at a location, its other fields the schema defaults
StoredAt(id, location) ==
  [id |-> id, category |-> <<"O","t","h","e","r">>, description |-> <<"n","o"," ","l","i","g","h","t">>,
   location |-> location, embedding |-> NoVector, createdAt |-> Today,
   aiDuplicateCheck |-> [isDuplicate |-> FALSE, similarity |-> 0,
                         matchingComplaintId |-> Null, matchedField |-> "null"],
   priorityScore |-> 50,
   priorityBreakdown |-> [complaintCountScore |-> 0, timePendingScore |-> 0,
                          areaWeightScore |-> 0, categoryMultiplier |-> 10],
   aiSeverityLevel |-> "medium",
   aiReasoning |-> [text |-> "", score |-> 0, count |-> 0, category |-> <<>>,
                    multiplier |-> 0]]

\* a store of n complaints at one location followed by m at another
StoreOf(n, m) ==
  [i \in 1..(n + m) |->
     StoredAt(i, IF i <= n THEN <<"M","G"," ","R","o","a","d">> ELSE <<"P","a","r","k">>)]

ArgCategories ==
  CategoryEnum \cup { Undefined, <<>>, <<"P","o","t","h","o","l","e">>, <<"S","e","w","a","g","e">>, <<"c","o","n","s","t","r","u","c","t","o","r">> }
ArgLocations == { Undefined, <<"m","g">>, <<"M","G"," ","R","o","a","d">>, <<"P","a","r","k">> }
ArgHours == { Unset, 0, 1, MaxHours - 2, MaxHours }
ArgAreaWeights == { Unset, 0, 1, 50, 99, 100 }

InitPriority ==
  /\ \E n \in 0..MaxSameLocation, m \in 0..MaxSameLocation :
       /\ n + m <= MaxSameLocation
       /\ complaints = StoreOf(n, m)
       /\ nextId = n + m + 1
  /\ transformers = FALSE
  /\ req = [r \in Requests |-> Idle]
  /\ \E category \in ArgCategories, location \in ArgLocations,
        hoursPending \in ArgHours, areaWeight \in ArgAreaWeights,
        dbFails \in BOOLEAN :
       call = [pc |-> "called",
               complaint |-> [category |-> category, location |-> location,
                              id |-> Null],
               options |-> [hoursPending |-> hoursPending,
                            areaWeight |-> areaWeight],
               dbFails |-> dbFails]
  /\ ret = NoReturn

\* the call runs to its return
CalculatePriorityCall ==
  /\ call.pc = "called"
  /\ ret' = calculatePriority(call.complaint, call.options, complaints, call.dbFails)
  /\ call' = [call EXCEPT !.pc = "returned"]
  /\ UNCHANGED <<complaints, transformers, nextId, req>>

NextPriority == CalculatePriorityCall

SpecPriority == InitPriority /\ [][NextPriority]_vars

(***************************************************************************)
(* detectDuplicate called directly (the exported function, and             *)
(* POST /api/complaints/duplicate-check), in two steps: up to the          *)
(* embedding of the new text, then the find and the loop over its result.  *)
(***************************************************************************)

\* a stored complaint with an embedding and a day of creation
StoredWith(id, embedding, createdAt) ==
  [StoredAt(id, <<"m","g">>) EXCEPT !.embedding = embedding,
                                    !.createdAt = createdAt]

\* the embeddings stored: none, an empty one, the one of "pothole", one at
\* cosine 17/20 to it, the zero vector, and the one of "drain clog"
StoredEmbeddings ==
  { NoVector, <<>>, <<1, 0, 0, 0, 0>>, <<17, 10, 3, 1, 1>>, <<0, 0, 0, 0, 0>>,
    <<2, 1>> }

\* created today, exactly seven days ago, and the day before that
StoredDays == { Today, Today - SevenDays, Today - SevenDays - 1 }

\* every store of at most MaxWindow complaints
SmallStores ==
  { [i \in DOMAIN f |-> StoredWith(i, f[i][1], f[i][2])] :
      f \in UNION { [1..n -> StoredEmbeddings \X StoredDays] : n \in 0..MaxWindow } }

\* n complaints in the order of their creation, the first one created on
\* firstDay and the last one today; the one at hit carries the embedding of
\* "pothole", the others one at a right angle to it
LargeStore(n, hit, firstDay) ==
  [i \in 1..n |->
     StoredWith(i,
                IF i = hit THEN <<1, 0, 0, 0, 0>> ELSE <<0, 1, 0, 0, 0>>,
                IF i = 1 THEN firstDay ELSE IF i = n THEN Today ELSE Today - 1)]

\* stores of as many complaints as the limit of the find, and of one more
LargeStores ==
  { LargeStore(n, hit, firstDay) :
      n \in { WindowLimit, WindowLimit + 1 }, hit \in { 1, WindowLimit, WindowLimit + 1 },
      firstDay \in { Today - SevenDays, Today - SevenDays - 1 } }

ArgDescriptions == { Undefined, <<"d","r","a","i","n"," ","c","l","o","g">>, <<"p","o","t","h","o","l","e">> }

InitDetect ==
  /\ complaints \in SmallStores \cup LargeStores
  /\ nextId = Len(complaints) + 1
  /\ transformers \in BOOLEAN
  /\ req = [r \in Requests |-> Idle]
  /\ \E description \in ArgDescriptions, order \in NaturalOrders,
        dbFails \in BOOLEAN :
       call = [pc |-> "called",
               complaint |-> [description |-> description, location |-> <<"m","g">>],
               now |-> Today, order |-> order, dbFails |-> dbFails,
               finds |-> 0]
  /\ ret = fallbackDetectDuplicate

\* the find runs before the module is looked for and the text embedded
DetectEmbedAfterFind ==
  /\ call.pc = "called"
  /\ call' = [call EXCEPT !.pc = "find", !.finds = @ + 1]
  /\ UNCHANGED <<complaints, transformers, nextId, req, ret>>

\* safeRequire, pipeline and extractor(newComplaint.description): without
\* the module, or when the extractor raises, the fallback is returned
DetectEmbed ==
  /\ call.pc = "called"
  /\ IF ~transformers \/ call.complaint.description = Undefined
     THEN /\ ret' = fallbackDetectDuplicate
          /\ call' = [call EXCEPT !.pc = "returned"]
     ELSE /\ call' = [call EXCEPT !.pc = "find"]
          /\ UNCHANGED ret
  /\ UNCHANGED <<complaints, transformers, nextId, req>>

\* Complaint.find(...).limit(50), the loop and the return
DetectFind ==
  /\ call.pc = "find"
  /\ ret' = detectDuplicate(call.complaint, complaints, call.now, call.order,
                            transformers, call.dbFails)
  /\ call' = [call EXCEPT !.pc = "returned", !.finds = @ + 1]
  /\ UNCHANGED <<complaints, transformers, nextId, req>>

NextDetect == DetectEmbed \/ DetectFind

SpecDetect == InitDetect /\ [][NextDetect]_vars

(***************************************************************************)
(* cosineSimilarity called directly.                                       *)
(***************************************************************************)

\* the coordinates drawn
Coordinates == { -1, 0, 1 }

\* no vector, and every vector of at most MaxDim coordinates
ArgVectors ==
  { NoVector } \cup UNION { [1..n -> Coordinates] : n \in 0..MaxDim }

InitCosine ==
  /\ complaints = <<>>
  /\ nextId = 1
  /\ transformers = FALSE
  /\ req = [r \in Requests |-> Idle]
  /\ \E vecA \in ArgVectors, vecB \in ArgVectors :
       call = [pc |-> "called", vecA |-> vecA, vecB |-> vecB, swapped |-> Zero]
  /\ ret = Zero

CosineSimilarityCall ==
  /\ call.pc = "called"
  /\ ret' = cosineSimilarity(call.vecA, call.vecB)
  /\ call' = [call EXCEPT !.pc = "returned"]
  /\ UNCHANGED <<complaints, transformers, nextId, req>>

\* a second call with the same two vectors, the other way round
CosineSimilaritySwappedCall ==
  /\ call.pc = "returned"
  /\ call' = [call EXCEPT !.pc = "swapped",
                          !.swapped = cosineSimilarity(call.vecB, call.vecA)]
  /\ UNCHANGED <<complaints, transformers, nextId, req, ret>>

NextCosine == CosineSimilarityCall \/ CosineSimilaritySwappedCall

SpecCosine == InitCosine /\ [][NextCosine]_vars

(***************************************************************************)
(* GET /api/complaints/priority (complaint.routes router.get("/priority")).*)
(***************************************************************************)

\* the property names Object.prototype hands to a lookup in severityMap
InheritedLevels == { "constructor", "toString", "valueOf" }

\* severityMap[level] as a condition on priorityScore
severityMap(level, priorityScore) ==
  CASE level = "critical" -> GE(priorityScore, 80)
    [] level = "high" -> GE(priorityScore, 60) /\ LT(priorityScore, 80)
    [] level = "medium" -> GE(priorityScore, 40) /\ LT(priorityScore, 60)
    [] level = "low" -> LT(priorityScore, 40)

\* the filters of grouped, with the lower limit of high exclusive
InBucketExclusive(bucket, priorityScore) ==
  CASE bucket = "critical" -> GE(priorityScore, 80)
    [] bucket = "high" -> ~LT(priorityScore, 61) /\ LT(priorityScore, 80)
    [] bucket = "medium" -> GE(priorityScore, 40) /\ LT(priorityScore, 60)
    [] bucket = "low" -> LT(priorityScore, 40)

\* the filters of grouped
InBucket(bucket, priorityScore) ==
  CASE bucket = "critical" -> GE(priorityScore, 80)
    [] bucket = "high" -> GE(priorityScore, 60) /\ LT(priorityScore, 80)
    [] bucket = "medium" -> GE(priorityScore, 40) /\ LT(priorityScore, 60)
    [] bucket = "low" -> LT(priorityScore, 40)

\* .sort({ priorityScore: -1, createdAt: -1 })
SortedByPriority(found) ==
  LET Before(a, b) ==
        \/ a.priorityScore > b.priorityScore
        \/ a.priorityScore = b.priorityScore /\ a.createdAt > b.createdAt
  IN SortSeq(found, Before)

\* an answer of the route
ListingFailed ==
  [status |-> 500, total |-> 0, grouped |-> [b \in SeverityEnum |-> <<>>],
   all |-> <<>>]

\* the handler: an empty level and one severityMap does not know leave the
\* query empty, a level Object.prototype knows puts a function into the
\* query, which the find cannot cast to a number
getPriority(level, store, dbFails) ==
  IF dbFails \/ level \in InheritedLevels THEN ListingFailed
  ELSE LET Matches(complaint) ==
             level \in SeverityEnum => severityMap(level, complaint.priorityScore)
           found == SortedByPriority(SelectSeq(store, Matches))
           Group(bucket) ==
             LET Filter(complaint) == InBucket(bucket, complaint.priorityScore)
             IN SelectSeq(found, Filter)
       IN [status |-> 200, total |-> Len(found),
           grouped |-> [b \in SeverityEnum |-> Group(b)],
           all |-> found]

\* what calculatePriority returns to POST /api/complaints, which passes no
\* options, with up to MaxCounted complaints at the location
ListedResults ==
  { calculatePriority([category |-> category, location |-> <<"M","G"," ","R","o","a","d">>,
                       id |-> Null],
                      NoOptions, StoreOf(n, 0), dbFails) :
      category \in CategoryEnum, n \in 0..MaxCounted, dbFails \in BOOLEAN }

\* the pairs of priorityScore and aiSeverityLevel the route then stores
ListedPairs ==
  { <<result.score, result.severityLevel>> : result \in ListedResults }

\* every store of at most MaxListed such complaints, created one after the
\* other
ListedStores ==
  { [i \in DOMAIN f |->
       [StoredAt(i, <<"M","G"," ","R","o","a","d">>) EXCEPT !.priorityScore = f[i][1],
                                      !.aiSeverityLevel = f[i][2],
                                      !.createdAt = i]] :
      f \in UNION { [1..n -> ListedPairs] : n \in 0..MaxListed } }

\* req.query.level: absent, the four levels, an unknown one, an inherited one
ArgLevels == { "" } \cup SeverityEnum \cup { "urgent", "constructor" }

InitListing ==
  /\ complaints \in ListedStores
  /\ nextId = Len(complaints) + 1
  /\ transformers = FALSE
  /\ req = [r \in Requests |-> Idle]
  /\ \E level \in ArgLevels, dbFails \in BOOLEAN :
       call = [pc |-> "called", level |-> level, dbFails |-> dbFails]
  /\ ret = ListingFailed

\* the request runs to its response
GetPriority ==
  /\ call.pc = "called"
  /\ ret' = getPriority(call.level, complaints, call.dbFails)
  /\ call' = [call EXCEPT !.pc = "returned"]
  /\ UNCHANGED <<complaints, transformers, nextId, req>>

NextListing == GetPriority

SpecListing == InitListing /\ [][NextListing]_vars

(***************************************************************************)
(* The routes of the complaint router served one request after another:    *)
(* POST /, POST /duplicate-check, GET /priority, POST /priority/calculate. *)
(***************************************************************************)

\* req.body.category of POST /priority/calculate
RouteCategories ==
  { Undefined, <<"G","a","r","b","a","g","e">>, <<"c","o","n","s","t","r","u","c","t","o","r">> }

\* a step of POST /, no other route being served
Submit == call.pc = "none" /\ Next

\* no request is being served
Quiet == call.pc = "none" /\ \A r \in DOMAIN req : req[r].pc = "idle"

\* POST /duplicate-check: 400 without a description, else the result of
\* detectDuplicate with the similarity as a percentage, 500 from the catch
DuplicateCheckRoute ==
  /\ Quiet
  /\ \E description \in ArgDescriptions \cup { <<>> }, location \in { Undefined, <<"m","g">> },
        dbFails \in BOOLEAN, order \in NaturalOrders :
       /\ call' = [pc |-> "returned", route |-> "duplicate-check",
                   description |-> description, location |-> location]
       /\ ret' =
            IF ~Truthy(description) THEN [status |-> 400]
            ELSE LET result == detectDuplicate([description |-> description,
                                                location |-> location],
                                               complaints, Today, order,
                                               transformers, dbFails)
                 IN IF "raised" \in DOMAIN result THEN [status |-> 500]
                    ELSE [status |-> 200,
                          isDuplicate |-> result.isDuplicate,
                          similarity |-> RoundPercent(result.similarity),
                          matchingComplaintId |-> result.matchingComplaint,
                          matchedField |-> result.matchedField]
  /\ UNCHANGED <<complaints, transformers, nextId, req>>

\* GET /priority?level=...
GetPriorityRoute ==
  /\ Quiet
  /\ \E level \in ArgLevels, dbFails \in BOOLEAN :
       /\ call' = [pc |-> "returned", route |-> "priority", level |-> level]
       /\ ret' = getPriority(level, complaints, dbFails)
  /\ UNCHANGED <<complaints, transformers, nextId, req>>

\* POST /priority/calculate: calculatePriority({ category, description,
\* location }) with no options, its result sent as it is
PriorityCalculateRoute ==
  /\ Quiet
  /\ \E category \in RouteCategories, location \in ArgLocations, dbFails \in BOOLEAN :
       /\ call' = [pc |-> "returned", route |-> "priority/calculate",
                   category |-> category, location |-> location]
       /\ ret' = calculatePriority([category |-> category, location |-> location,
                                    id |-> Null],
                                   NoOptions, complaints, dbFails)
  /\ UNCHANGED <<complaints, transformers, nextId, req>>

\* the response has gone out
RouteDone ==
  /\ call.pc = "returned"
  /\ call' = NoCall
  /\ ret' = NoReturn
  /\ UNCHANGED <<complaints, transformers, nextId, req>>

NextRoutes ==
  \/ Submit
  \/ DuplicateCheckRoute
  \/ GetPriorityRoute
  \/ PriorityCalculateRoute
  \/ RouteDone

SpecRoutes == Init /\ [][NextRoutes]_vars

(***************************************************************************)
(* Startup (server.js): connectToDB().then(listen).catch(listen).  The     *)
(* clock counts the seconds since mongoose.connect was called.             *)
(***************************************************************************)

\* serverSelectionTimeoutMS: 5000
ServerSelectionTimeout == 5

\* process.env.MONGO_URL: not set, a server that answers, one that does not
MongoUrls == { "undefined", "reachable", "unreachable" }

InitServer ==
  /\ complaints = <<>>
  /\ transformers = FALSE
  /\ nextId = 1
  /\ req = [r \in Requests |-> Idle]
  /\ \E url \in MongoUrls :
       call = [pc |-> "connecting", url |-> url, clock |-> 0,
               rejected |-> FALSE, db |-> "pending", listens |-> 0,
               warned |-> FALSE, connected |-> FALSE, served |-> 0, status |-> 0]
  /\ ret = NoReturn

\* a second passes while mongoose.connect looks for the server
ConnectTick ==
  /\ call.pc = "connecting"
  /\ call.url # "undefined"
  /\ call.clock < ServerSelectionTimeout
  /\ call' = [call EXCEPT !.clock = @ + 1]
  /\ UNCHANGED <<complaints, transformers, nextId, req, ret>>

\* connectToDB settles: mongoose once connected; null when connect raised,
\* at once for an unusable URL, at the timeout for a server that is not
\* there.  Its promise never rejects.
connectToDB(url, clock) ==
  IF url = "reachable" THEN { [rejected |-> FALSE, db |-> "mongoose"] }
  ELSE IF url = "undefined" \/ clock = ServerSelectionTimeout
  THEN { [rejected |-> FALSE, db |-> "null"] }
  ELSE { }

ConnectSettle ==
  /\ call.pc = "connecting"
  /\ \E settled \in connectToDB(call.url, call.clock) :
       call' = [call EXCEPT !.pc = "settled",
                            !.rejected = settled.rejected,
                            !.db = settled.db,
                            !.connected = (settled.db = "mongoose")]
  /\ UNCHANGED <<complaints, transformers, nextId, req, ret>>

\* the callbacks with the server started only when the database is there
StartListeningWithDatabase ==
  /\ call.pc = "settled"
  /\ call.db = "mongoose"
  /\ call' = [call EXCEPT !.pc = "listening", !.listens = @ + 1]
  /\ UNCHANGED <<complaints, transformers, nextId, req, ret>>

\* the callback of .then, or the one of .catch after a rejection: either
\* calls app.listen(3000, ...); the first warns when db is null
StartListening ==
  /\ call.pc = "settled"
  /\ call' = [call EXCEPT !.pc = "listening",
                          !.listens = @ + 1,
                          !.warned = (~call.rejected /\ call.db = "null")]
  /\ UNCHANGED <<complaints, transformers, nextId, req, ret>>

\* the connection to a database that was reached drops or comes back
\* (mongoose reconnects by itself)
ConnectionChange ==
  /\ call.pc = "listening"
  /\ call.db = "mongoose"
  /\ call' = [call EXCEPT !.connected = ~@]
  /\ UNCHANGED <<complaints, transformers, nextId, req, ret>>

\* a request to a route that reads the database is answered: 500 from the
\* route's catch when there is no connection
Serve ==
  /\ call.pc = "listening"
  /\ call.served < MaxServed
  /\ call' = [call EXCEPT !.served = @ + 1,
                          !.status = IF call.connected THEN 200 ELSE 500]
  /\ UNCHANGED <<complaints, transformers, nextId, req, ret>>

NextServer ==
  \/ ConnectTick
  \/ ConnectSettle
  \/ StartListening
  \/ ConnectionChange
  \/ Serve

\* timers fire and promise callbacks run: the event loop leaves no enabled
\* step of the startup waiting for ever
SpecServer ==
  /\ InitServer
  /\ [][NextServer]_vars
  /\ WF_vars(ConnectTick)
  /\ WF_vars(ConnectSettle)
  /\ WF_vars(StartListening)

(***************************************************************************)
(* Properties.                                                             *)
(***************************************************************************)

\* the fixed mapping of a score in 0..100 to its tier
TierOfScore(score) ==
  IF score >= 80 THEN "critical"
  ELSE IF score >= 60 THEN "high"
  ELSE IF score >= 40 THEN "medium"
  ELSE "low"

DefaultReasoning == "Default assessment (AI disabled)"

C2_StoredSeverityMatchesScore ==
  /\ \A i \in DOMAIN complaints :
       /\ complaints[i].priorityScore \in 0..100
       /\ complaints[i].aiSeverityLevel = TierOfScore(complaints[i].priorityScore)
  /\ StoredAt(1, <<>>).aiSeverityLevel = TierOfScore(StoredAt(1, <<>>).priorityScore)

\* a complaint scored by the fallback path is stored next to one scored by
\* the formula, and their tiers differ
C2_Witness ==
  \E i, j \in DOMAIN complaints :
    /\ complaints[i].aiReasoning.text = DefaultReasoning
    /\ complaints[j].aiReasoning.text = "Score"
    /\ complaints[i].aiSeverityLevel # complaints[j].aiSeverityLevel

\* C3: a returned result whose score lies in a tier's range carries that
\* tier: [80,100] critical, [60,80) high, [40,60) medium, [0,40) low.
C3_SeverityIsTierOfScore ==
  call.pc = "returned" =>
    /\ ret.score \in 80..100 => ret.severityLevel = "critical"
    /\ ret.score \in 60..79 => ret.severityLevel = "high"
    /\ ret.score \in 40..59 => ret.severityLevel = "medium"
    /\ ret.score \in 0..39 => ret.severityLevel = "low"

\* a call returned the boundary score 80 from the formula
C3_Witness ==
  call.pc = "returned" /\ ret.score = 80 /\ ret.reasoning.text = "Score"

\* C4 as claimed: for every category, hoursPending >= 0 and areaWeight in
\* 0..100 (or either not supplied), the returned score is an integer in
\* 0..100.
C4_ScoreInRange ==
  ( /\ call.pc = "returned"
    /\ call.options.hoursPending \in { Unset } \cup 0..MaxHours
    /\ call.options.areaWeight \in { Unset } \cup 0..100 )
    => ret.score \in 0..100

\* the score the claimed formula gives for a breakdown, the multiplier in
\* tenths: multiply, round half up, then clamp to 100
ClaimedScore(b) ==
  LET product ==
        (4 * b.complaintCountScore + 3 * b.timePendingScore
           + 3 * b.areaWeightScore) * b.categoryMultiplier
      rounded == (product + 50) \div 100
  IN IF rounded > 100 THEN 100 ELSE rounded

\* the stored complaints a candidate location matches, case-insensitively
\* as a substring, on the locations of this model
MatchingStored(location) ==
  { i \in DOMAIN complaints :
      \/ location \in { <<"m","g">>, <<"M","G"," ","R","o","a","d">> } /\ complaints[i].location = <<"M","G"," ","R","o","a","d">>
      \/ location = <<"P","a","r","k">> /\ complaints[i].location = <<"P","a","r","k">> }

\* the call took the try block to its end with a numeric multiplier
ScoredByFormula ==
  /\ call.pc = "returned"
  /\ ret.reasoning.text = "Score"
  /\ ret.breakdown.categoryMultiplier > 0

\* C5: the score of the formula path is
\* min(round((0.4*count + 0.3*time + 0.3*area) * multiplier), 100);
\* Drainage with count 0, hours 0, areaWeight 50 scores 75 (high) and
\* Streetlight Issue with count 10, hours 0, areaWeight 50 scores 70 (high).
C5_MultiplyRoundClamp ==
  ScoredByFormula =>
    /\ ret.score = ClaimedScore(ret.breakdown)
    /\ ( /\ call.complaint.category = <<"D","r","a","i","n","a","g","e">>
         /\ Cardinality(MatchingStored(call.complaint.location)) = 0
         /\ call.options = [hoursPending |-> 0, areaWeight |-> 50] )
         => ret.score = 75 /\ ret.severityLevel = "high"
    /\ ( /\ call.complaint.category = <<"S","t","r","e","e","t","l","i","g","h","t"," ","I","s","s","u","e">>
         /\ Cardinality(MatchingStored(call.complaint.location)) = 10
         /\ call.options = [hoursPending |-> 0, areaWeight |-> 50] )
         => ret.score = 70 /\ ret.severityLevel = "high"

\* a Drainage call whose product 105 exceeds 100 returned the clamped 100
C5_Witness ==
  /\ ScoredByFormula
  /\ call.complaint.category = <<"D","r","a","i","n","a","g","e">>
  /\ ret.breakdown.complaintCountScore = 100
  /\ call.options = [hoursPending |-> 0, areaWeight |-> 50]
  /\ ret.score = 100

\* the count query of the call raised
ScoringFailed == call.pc = "returned" /\ QueryRaises(call.complaint, call.dbFails)

FallbackTable(category) ==
  CASE category \in { <<"D","r","a","i","n","a","g","e">>, <<"S","e","w","a","g","e">> } -> <<85, 15>>
    [] category = <<"G","a","r","b","a","g","e">> -> <<70, 12>>
    [] category = <<"W","a","t","e","r"," ","L","e","a","k","a","g","e">> -> <<65, 11>>
    [] category \in { <<"R","o","a","d"," ","D","a","m","a","g","e">>, <<"P","o","t","h","o","l","e">> } -> <<60, 10>>
    [] category = <<"S","t","r","e","e","t","l","i","g","h","t"," ","I","s","s","u","e">> -> <<55, 9>>
    [] OTHER -> <<50, 10>>

C8_AreaWeightPassThrough ==
  (call.pc = "returned" /\ ret.reasoning.text = "Score") =>
    /\ call.options.areaWeight \in 0..100
         => ret.breakdown.areaWeightScore = call.options.areaWeight
    /\ call.options.areaWeight = Unset => ret.breakdown.areaWeightScore = 50

\* C9: on the formula path complaintCountScore is
\* min(10 * sameLocationCount + 50, 100), sameLocationCount the number of
\* stored complaints whose location matches the candidate's.
C9_CountScore ==
  (call.pc = "returned" /\ ret.reasoning.text = "Score") =>
    LET n == Cardinality(MatchingStored(call.complaint.location))
    IN /\ ret.reasoning.count = n
       /\ ret.breakdown.complaintCountScore = (IF n >= 5 THEN 100 ELSE 10 * n + 50)

\* a call with four matches scored 90 while another location is stored
\* too, and the candidate differs from the stored location in case
C9_Witness ==
  /\ call.pc = "returned" /\ ret.reasoning.text = "Score"
  /\ call.complaint.location = <<"m","g">>
  /\ Cardinality(MatchingStored(call.complaint.location)) = 4
  /\ Len(complaints) > 4
  /\ ret.breakdown.complaintCountScore = 90

\* the documented multiplier of a category, in tenths
DocumentedMultiplier(category) ==
  CASE category = <<"D","r","a","i","n","a","g","e">> -> 15
    [] category = <<"G","a","r","b","a","g","e">> -> 13
    [] category = <<"W","a","t","e","r"," ","L","e","a","k","a","g","e">> -> 12
    [] category = <<"R","o","a","d"," ","D","a","m","a","g","e">> -> 11
    [] OTHER -> 10

\* C10 as claimed: the categoryMultiplier of every returned result is the
\* documented multiplier of the category.
C10_DocumentedMultiplier ==
  call.pc = "returned" =>
    ret.breakdown.categoryMultiplier = DocumentedMultiplier(call.complaint.category)

(***************************************************************************)
(* Properties of detectDuplicate and cosineSimilarity.                     *)
(***************************************************************************)

\* the call of detectDuplicate returned after its find succeeded
DetectCompared ==
  /\ call.pc = "returned"
  /\ transformers
  /\ call.complaint.description # Undefined
  /\ ~call.dbFails

\* the stored complaints created within the seven days before the call
CreatedInWindow == { i \in DOMAIN complaints : complaints[i].createdAt >= call.now - SevenDays }

\* the embedding of a stored complaint is present and not empty
Usable(embedding) == embedding # NoVector /\ embedding # <<>>

\* the window the call compared against
ComparedWindow == recentComplaints(complaints, call.now, call.order)

\* num / sqrt(den2) is a number above 0.85: num > 0 and num^2 / den2 > 289/400
Above85(s) == s.den2 > 0 /\ s.num > 0 /\ 400 * s.num * s.num > 289 * s.den2

\* num / sqrt(den2) is exactly 0.85
Exactly85(s) == s.den2 > 0 /\ s.num > 0 /\ 400 * s.num * s.num = 289 * s.den2

\* the cosine of the new text's embedding and a stored one, by the formula
CosineTo(embedding) ==
  LET new == Embed(call.complaint.description)
  IN [num |-> Dot(new, embedding, 1),
      den2 |-> Dot(new, new, 1) * Dot(embedding, embedding, 1)]

\* the result for no duplicate, with its matchedField null
NonDuplicate ==
  [isDuplicate |-> FALSE, similarity |-> Zero, matchingComplaint |-> Null,
   matchedField |-> "null"]

\* C11: detectDuplicate reports isDuplicate = true exactly when the best
\* similarity it found is strictly greater than 0.85, which is exactly when
\* some compared complaint with a usable embedding of the new embedding's
\* length is above 0.85; a best similarity of exactly 0.85 gives false.
C11_StrictThreshold ==
  call.pc = "returned" =>
    /\ ret.isDuplicate <=> Above85(ret.similarity)
    /\ Exactly85(ret.similarity) => ~ret.isDuplicate
    /\ DetectCompared =>
         (ret.isDuplicate <=>
            \E i \in DOMAIN ComparedWindow :
              /\ Usable(ComparedWindow[i].embedding)
              /\ Len(ComparedWindow[i].embedding) = Len(Embed(call.complaint.description))
              /\ Above85(CosineTo(ComparedWindow[i].embedding)))

\* the best similarity found is exactly 0.85 and no duplicate is reported
C11_Witness ==
  /\ DetectCompared
  /\ Exactly85(ret.similarity)
  /\ ret.matchingComplaint # Null
  /\ ~ret.isDuplicate

\* C12: with a non-empty window of which no entry has a usable embedding,
\* detectDuplicate returns what it returns for an empty window: isDuplicate
\* false, similarity 0, matching complaint null and matchedField null.
C12_NoUsableEmbeddingIsEmptyWindow ==
  ( /\ DetectCompared
    /\ Len(ComparedWindow) > 0
    /\ \A i \in DOMAIN ComparedWindow : ~Usable(ComparedWindow[i].embedding) )
    => ret = NonDuplicate

\* C13: when no stored complaint was created in the seven days before the
\* call, detectDuplicate returns isDuplicate false, similarity 0 and a null
\* matching complaint.
C13_EmptyWindow ==
  (call.pc = "returned" /\ CreatedInWindow = {}) =>
    /\ ret.isDuplicate = FALSE
    /\ ret.similarity = Zero
    /\ ret.matchingComplaint = Null

\* complaints with the new text's embedding are stored, all of them older
\* than seven days, and the call compared
C13_Witness ==
  /\ DetectCompared
  /\ call.finds = 1
  /\ CreatedInWindow = {}
  /\ \E i \in DOMAIN complaints :
       complaints[i].embedding = Embed(call.complaint.description)

\* C14: when the window holds one entry and its embedding is the new
\* text's (non-zero) embedding, detectDuplicate returns isDuplicate true,
\* similarity 1 and that entry as the matching complaint.
C14_IdenticalEmbedding ==
  \A i \in DOMAIN complaints :
    ( /\ DetectCompared
      /\ CreatedInWindow = { i }
      /\ complaints[i].embedding = Embed(call.complaint.description)
      /\ Dot(complaints[i].embedding, complaints[i].embedding, 1) > 0 )
      => /\ ret.isDuplicate = TRUE
         /\ ret.similarity.num > 0
         /\ ret.similarity.num * ret.similarity.num = ret.similarity.den2
         /\ ret.matchingComplaint = complaints[i].id

\* the one entry of the window carries the embedding of "drain clog", whose
\* norm is not 1, next to an older complaint
C14_Witness ==
  /\ DetectCompared
  /\ Len(complaints) = 2
  /\ \E i \in DOMAIN complaints :
       /\ CreatedInWindow = { i }
       /\ complaints[i].embedding = <<2, 1>>
       /\ complaints[i].embedding = Embed(call.complaint.description)
       /\ ret.isDuplicate

\* C15: when no embedding can be produced for the new text (the module is
\* not there, or the extractor raises), detectDuplicate returns the result
\* for no duplicate without a find on the stored complaints.
C15_NoEmbeddingShortCircuits ==
  (call.pc = "returned" /\ (~transformers \/ call.complaint.description = Undefined))
    => ret = NonDuplicate /\ call.finds = 0

\* the module is not there while a complaint created today carries the new
\* text's embedding
C15_Witness ==
  /\ call.pc = "returned"
  /\ ~transformers
  /\ call.finds = 0
  /\ \E i \in CreatedInWindow :
       /\ call.complaint.description # Undefined
       /\ complaints[i].embedding = Embed(call.complaint.description)

\* C16: cosineSimilarity returns exactly 0 whenever one of the vectors is
\* absent or empty (both empty included) or their lengths differ.
C16_ZeroOnUnusableVectors ==
  ( /\ call.pc = "returned"
    /\ \/ call.vecA = NoVector \/ call.vecB = NoVector
       \/ Len(call.vecA) = 0 \/ Len(call.vecB) = 0
       \/ Len(call.vecA) # Len(call.vecB) )
    => ret.num = 0 /\ ret.den2 # 0

\* C20: the window detectDuplicate compares against holds only complaints
\* created within the seven days before the call, at most 50 of them, and
\* no complaint left out of it was created after one that is in it.
C20_FiftyMostRecent ==
  (DetectCompared /\ call.finds = 1) =>
    /\ \A i \in DOMAIN ComparedWindow :
         ComparedWindow[i].createdAt >= call.now - SevenDays
    /\ Len(ComparedWindow) <= WindowLimit
    /\ \A j \in CreatedInWindow :
         (\A i \in DOMAIN ComparedWindow : ComparedWindow[i].id # complaints[j].id)
           => \A i \in DOMAIN ComparedWindow :
                complaints[j].createdAt <= ComparedWindow[i].createdAt

(***************************************************************************)
(* Properties of POST /api/complaints and GET /api/complaints/priority.    *)
(***************************************************************************)

\* C17 as claimed: the scorer has run only for requests whose duplicate
\* check did not report a duplicate, so no request that is answered 409 has
\* invoked calculatePriority.
C17_ScorerOnlyUnlessDuplicate ==
  \A r \in DOMAIN req :
    req[r].pc = "respond" => ~req[r].duplicateCheck.isDuplicate

\* C17: detectDuplicate is called first and calculatePriority next, also
\* when a duplicate was reported; 409 is answered only after the scoring,
\* carries its result, and stores nothing.
C17_ScorerRunsBeforeRejection ==
  [][\A r \in DOMAIN req :
       /\ (req[r].pc = "score" /\ req[r].duplicateCheck.isDuplicate
             /\ req'[r] # req[r])
            => req'[r].pc = "respond"
       /\ (req'[r].pc = "done" /\ req'[r].status = 409 /\ req'[r] # req[r])
            => /\ req[r].pc = "respond"
               /\ req'[r].resPriority = req[r].priorityResult.score
               /\ req'[r].resPriority \in 0..100
               /\ complaints' = complaints]_vars

\* a request whose duplicate check reported a duplicate holds the result of
\* calculatePriority
C17_Witness ==
  \E r \in DOMAIN req :
    /\ req[r].pc = "respond"
    /\ req[r].duplicateCheck.isDuplicate
    /\ req[r].priorityResult.score \in 0..100
    /\ req[r].priorityResult.reasoning.text = "Score"

\* k is the integer nearest to 100 * num / sqrt(den2), halves going up
NearestPercent(k, s) ==
  /\ k \in 0..100
  /\ s.den2 > 0 /\ s.num > 0
  /\ k = 0 \/ (2 * k - 1) * (2 * k - 1) * s.den2 <= 40000 * s.num * s.num
  /\ (2 * k + 1) * (2 * k + 1) * s.den2 > 40000 * s.num * s.num \/ k = 100

\* C18: the last step of POST /api/complaints answers 409 with
\* round(similarity * 100), an integer in 0..100, and the id of the matching
\* stored complaint when the detector reported a duplicate; otherwise it
\* answers 201 with the record it created, exactly one record having been
\* added, unless the create failed (500, nothing added).
C18_RejectOrCreateOne ==
  [][\A r \in DOMAIN req :
       (req[r].pc = "respond" /\ req'[r] # req[r]) =>
         /\ req'[r].pc = "done"
         /\ req[r].duplicateCheck.isDuplicate =>
              /\ req'[r].status = 409
              /\ NearestPercent(req'[r].resSimilarity, req[r].duplicateCheck.similarity)
              /\ req'[r].resMatchingComplaint = req[r].duplicateCheck.matchingComplaint
              /\ \E i \in DOMAIN complaints :
                   complaints[i].id = req'[r].resMatchingComplaint
              /\ complaints' = complaints
         /\ ~req[r].duplicateCheck.isDuplicate =>
              /\ req'[r].status \in { 201, 500 }
              /\ req'[r].status = 500 => complaints' = complaints
              /\ req'[r].status = 201 =>
                   /\ Len(complaints') = Len(complaints) + 1
                   /\ SubSeq(complaints', 1, Len(complaints)) = complaints
                   /\ complaints'[Len(complaints')].id = req'[r].created
                   /\ \A i \in DOMAIN complaints :
                        complaints[i].id # req'[r].created]_vars

\* a rewording of the one stored complaint was answered 409 with similarity
\* 95, which Math.floor would make 94
C18_Witness ==
  \E r \in DOMAIN req :
    /\ req[r].pc = "done" /\ req[r].status = 409
    /\ req[r].resSimilarity = 95
    /\ Len(complaints) = 1
    /\ req[r].resMatchingComplaint = complaints[1].id

\* the buckets of an answer that hold the complaint
BucketsOf(complaint) ==
  { b \in SeverityEnum :
      \E i \in DOMAIN ret.grouped[b] : ret.grouped[b][i].id = complaint.id }

FinalCategory(r) ==
  IF Truthy(req[r].category) THEN req[r].category
  ELSE IF Truthy(req[r].predictedCategory) THEN req[r].predictedCategory
  ELSE <<"O","t","h","e","r">>

\* C23: every complaint stored through POST /api/complaints has a category
\* of the fixed set; the stored category is the supplied one if given, else
\* the predicted one, else Other, and a submission whose category is outside
\* the set stores nothing.
C23_StoredCategoryInEnum ==
  [][/\ \A i \in DOMAIN complaints' : complaints'[i].category \in CategoryEnum
     /\ \A r \in DOMAIN req :
          (req[r].pc = "respond" /\ req'[r] # req[r]) =>
            /\ FinalCategory(r) \notin CategoryEnum => complaints' = complaints
            /\ complaints' # complaints =>
                 complaints'[Len(complaints')].category = FinalCategory(r)]_vars

\* a complaint submitted without a category is stored with the predicted
\* one, next to one stored with the category its submission supplied
C23_Witness ==
  \E i, j \in DOMAIN complaints :
    /\ complaints[i].description = <<"d","r","a","i","n"," ","c","l","o","g">>
    /\ complaints[i].category \in candidateLabels
    /\ complaints[j].description = <<"D","r","a","i","n"," ","c","l","o","g","g","e","d">>
    /\ complaints[j].category = <<"D","r","a","i","n","a","g","e">>

\* C28: every complaint stored through POST /api/complaints has
\* aiDuplicateCheck.isDuplicate = false and a stored similarity of at most
\* 85 percent.
C28_StoredAreNotDuplicates ==
  \A i \in DOMAIN complaints :
    /\ complaints[i].aiDuplicateCheck.isDuplicate = FALSE
    /\ complaints[i].aiDuplicateCheck.similarity \in 0..85

\* C21: the priorityScore, priorityBreakdown and severity level of a stored
\* complaint are those of its creation: no later submission, duplicate
\* check, priority listing or priority calculation changes them, and no
\* complaint is removed.
C21_ScoreSetOnce ==
  [][\A i \in DOMAIN complaints :
       /\ i \in DOMAIN complaints'
       /\ complaints'[i].priorityScore = complaints[i].priorityScore
       /\ complaints'[i].priorityBreakdown = complaints[i].priorityBreakdown
       /\ complaints'[i].aiSeverityLevel = complaints[i].aiSeverityLevel]_vars

\* a second complaint is stored at the location of the first with a higher
\* score, and a priority calculation for that location has just answered
\* with a score above the first one's stored score
C21_Witness ==
  /\ Len(complaints) = 2
  /\ complaints[2].priorityScore > complaints[1].priorityScore
  /\ call.pc = "returned"
  /\ call.route = "priority/calculate"
  /\ call.category = complaints[1].category
  /\ ret.score > complaints[1].priorityScore

\* C22: detectDuplicate never changes stored data and never raises: a call
\* through POST /api/complaints/duplicate-check leaves every stored
\* complaint as it was and is answered with a result (200), or with 400
\* when and only when the description is missing; never with 500.
C22_DetectorReadsOnly ==
  [][(call'.pc = "returned" /\ call.pc = "none" /\ call'.route = "duplicate-check") =>
       /\ complaints' = complaints
       /\ ret'.status = (IF Truthy(call'.description) THEN 200 ELSE 400)
       /\ ret'.status = 200 =>
            /\ ret'.isDuplicate \in BOOLEAN
            /\ ret'.similarity \in 0..100]_vars

\* the route found a duplicate among the stored complaints
C22_Witness ==
  /\ call.pc = "returned"
  /\ call.route = "duplicate-check"
  /\ ret.status = 200
  /\ ret.isDuplicate
  /\ \E i \in DOMAIN complaints : complaints[i].id = ret.matchingComplaintId

\* C24: two concurrent POST /api/complaints requests are not mutually
\* exclusive: a request whose duplicate check read the window before the
\* other request's record was created is decided on what it read, so it is
\* not rejected, and both records are stored.
C24_DecidedOnTheWindowRead ==
  [][\A r \in DOMAIN req :
       (req[r].pc = "respond" /\ req'[r].pc = "done"
          /\ ~req[r].duplicateCheck.isDuplicate) =>
         /\ req'[r].status # 409
         /\ req'[r].status = 201 =>
              /\ Len(complaints') = Len(complaints) + 1
              /\ complaints'[Len(complaints')].description = req[r].description]_vars

\* two stored complaints with the same description and an embedding each,
\* neither check having seen the other
C24_Witness ==
  /\ Len(complaints) = 2
  /\ complaints[1].description = complaints[2].description
  /\ \A i \in 1..2 :
       /\ Usable(complaints[i].embedding)
       /\ complaints[i].aiDuplicateCheck.matchingComplaintId = Null
       /\ \E r \in DOMAIN req : req[r].status = 201 /\ req[r].created = complaints[i].id

\* a stored complaint whose check found another one at 71 percent
C28_Witness ==
  \E i \in DOMAIN complaints :
    /\ complaints[i].aiDuplicateCheck.similarity = 71
    /\ complaints[i].aiDuplicateCheck.matchingComplaintId # Null
    /\ ~complaints[i].aiDuplicateCheck.isDuplicate

\* the similarity detectDuplicate computes for entry i of the window
WindowSimilarity(i) ==
  cosineSimilarity(Embed(call.complaint.description), ComparedWindow[i].embedding)

\* the entries of the window that have a usable embedding
UsableEntries == { i \in DOMAIN ComparedWindow : Usable(ComparedWindow[i].embedding) }

\* a is less than b, for similarities that are numbers
SimLess(a, b) == SignedSquare(a) * b.den2 < SignedSquare(b) * a.den2

\* i is the first of the entries in among which none is more similar
FirstBestAmong(i, among) ==
  /\ i \in among
  /\ \A j \in among : ~SimLess(WindowSimilarity(i), WindowSimilarity(j))
  /\ \A j \in among : j < i => SimLess(WindowSimilarity(j), WindowSimilarity(i))

\* C27 as claimed: detectDuplicate skips the entries without a usable
\* embedding and reports the first of the most similar entries among the
\* rest, whatever their similarity.
C27_FirstOfTheMostSimilar ==
  (DetectCompared /\ UsableEntries # {}) =>
    \E i \in UsableEntries :
      /\ FirstBestAmong(i, { j \in UsableEntries : ~IsNaN(WindowSimilarity(j)) })
      /\ ret.matchingComplaint = ComparedWindow[i].id

\* the usable entries whose similarity is a number above 0
PositiveEntries ==
  { i \in UsableEntries :
      ~IsNaN(WindowSimilarity(i)) /\ WindowSimilarity(i).num > 0 }

\* C27: detectDuplicate skips the entries without a usable embedding and
\* reports the first of the most similar entries among those whose
\* similarity is above 0; when there is none it reports no entry and
\* similarity 0.
C27_FirstOfTheMostSimilarAboveZero ==
  DetectCompared =>
    /\ PositiveEntries = {} =>
         ret.matchingComplaint = Null /\ ret.similarity = Zero
    /\ PositiveEntries # {} =>
         \E i \in PositiveEntries :
           /\ FirstBestAmong(i, PositiveEntries)
           /\ ret.matchingComplaint = ComparedWindow[i].id
           /\ ret.similarity = WindowSimilarity(i)

\* two entries are equally similar to the new text, handed over in reverse
\* order of insertion, and the one inserted last is reported
C27_Witness ==
  /\ DetectCompared
  /\ call.order = "reverse"
  /\ Len(ComparedWindow) = 2
  /\ PositiveEntries = { 1, 2 }
  /\ WindowSimilarity(1) = WindowSimilarity(2)
  /\ ret.matchingComplaint = ComparedWindow[1].id
  /\ ret.matchingComplaint = complaints[2].id

\* a and b are the same number
SimSame(a, b) ==
  /\ ~IsNaN(a) /\ ~IsNaN(b)
  /\ SignedSquare(a) * b.den2 = SignedSquare(b) * a.den2

\* C29: when detectDuplicate returns isDuplicate = true, its matching
\* complaint is not null and is a complaint of the window with an embedding
\* whose similarity to the new text is the reported one; when the matching
\* complaint is null the reported similarity is 0.
C29_MatchIsInWindow ==
  call.pc = "returned" =>
    /\ ret.isDuplicate =>
         /\ ret.matchingComplaint # Null
         /\ \E i \in DOMAIN ComparedWindow :
              /\ ComparedWindow[i].id = ret.matchingComplaint
              /\ Usable(ComparedWindow[i].embedding)
              /\ SimSame(CosineTo(ComparedWindow[i].embedding), ret.similarity)
    /\ ret.matchingComplaint = Null => ret.similarity.num = 0 /\ ret.similarity.den2 > 0

\* the second entry of the window is the duplicate, after a first one that
\* is similar but below it
C29_Witness ==
  /\ DetectCompared
  /\ ret.isDuplicate
  /\ Len(ComparedWindow) = 2
  /\ PositiveEntries = { 1, 2 }
  /\ ret.matchingComplaint = ComparedWindow[2].id

\* C25: whether the database connects or not, app.listen(3000) is
\* eventually called, and it is called once only: the server goes on
\* listening from then on.
C25_ListensOnceEventually ==
  /\ [](call.listens <= 1)
  /\ <>[](call.listens = 1 /\ call.pc = "listening")

\* the server listens and answers although the connection timed out
C25_Witness ==
  /\ call.pc = "listening"
  /\ call.url = "unreachable"
  /\ call.clock = ServerSelectionTimeout
  /\ call.db = "null"
  /\ call.warned
  /\ call.listens = 1
  /\ call.status = 500

====
